---- MODULE Spec2Model ----
(***************************************************************************)
(* Model of scripts/analyze_stocks.py: the per-symbol metrics computation  *)
(* (get_stock_data, calculate_rsi, infer_main_force_behavior), the         *)
(* narrative generation with retry (generate_analysis) and the batch loop   *)
(* (main).                                                                  *)
(*                                                                          *)
(* Conventions.  Prices and volumes are integers; every threshold of the    *)
(* source (x > avg * 1.5, pct > 0.05, ...) is compared exactly, by cross    *)
(* multiplication, so the model is the source's arithmetic without the      *)
(* rounding of binary floating point.  Python strings are sequences of      *)
(* tokens (a text of the generation service is a sequence over " " and      *)
(* "a"; a fixed message of the source is a one-token sequence).  The        *)
(* labels of the source are Chinese literals; each is named here by an      *)
(* ASCII token, with the source line beside its definition.                 *)
(***************************************************************************)
EXTENDS Integers, Sequences, FiniteSets, TLC

VARIABLES
    raw,        \* SpecData: the rows ak.stock_zh_a_hist answers with
    dpc,        \* SpecData: "call" before get_stock_data, "done" after
    signal,     \* SpecData: what infer_main_force_behavior did at line 154
    metrics,    \* SpecData: what get_stock_data returned
    STOCKS,     \* the symbol list (module global, line 60)
    i,          \* main: 1-based position in STOCKS (enumerate, line 211)
    pc,         \* main: position within the loop body
    data,       \* main: the current symbol's record (line 214)
    results,    \* main: the list written as "stocks" (lines 207, 228, 238)
    analysis,   \* main: the value generate_analysis returned (line 226)
    retry,      \* generate_analysis: loop variable of range(3) (line 190)
    outcomes,   \* generate_analysis: what Generation.call did, call by call
    waits,      \* generate_analysis: the time.sleep calls made, in order
    passed,     \* main: per processed symbol, did get_stock_data return a record
    errors,     \* main: how often the handler of line 232 ran
    written     \* main: the document dumped at lines 236-242, or NotWritten

dvars == <<raw, dpc, signal, metrics>>
mvars == <<STOCKS, i, pc, data, results, analysis, retry, outcomes, waits, passed, errors, written>>
vars == <<raw, dpc, signal, metrics, STOCKS, i, pc, data, results, analysis, retry,
          outcomes, waits, passed, errors, written>>

----------------------------------------------------------------------------
(* Bounds of the model *)

MaxVolIdx == 2        \* volume levels VolOf(0..MaxVolIdx)
MaxShortLen == 5      \* every series length 0..MaxShortLen is tried
MaxBad == 2           \* rows with a non-numeric cell, 0..MaxBad
MaxStep == 3          \* daily rise of a rising series, 1..MaxStep
MaxStocks == 2        \* length of the symbol list, 0..MaxStocks
MaxTextLen == 1       \* length of a generated text, 0..MaxTextLen

----------------------------------------------------------------------------
(* Small helpers over sequences of integers *)

RECURSIVE SumSeq(_)
SumSeq(s) == IF s = <<>> THEN 0 ELSE Head(s) + SumSeq(Tail(s))

RECURSIVE MaxSeq(_)
MaxSeq(s) == IF Len(s) = 1 THEN s[1]
             ELSE LET m == MaxSeq(Tail(s)) IN IF s[1] > m THEN s[1] ELSE m

RECURSIVE MinSeq(_)
MinSeq(s) == IF Len(s) = 1 THEN s[1]
             ELSE LET m == MinSeq(Tail(s)) IN IF s[1] < m THEN s[1] ELSE m

\* pandas .tail(n): the last n elements, all of them when there are fewer
TailN(s, n) == IF Len(s) <= n THEN s ELSE SubSeq(s, Len(s) - n + 1, Len(s))

Abs(x) == IF x < 0 THEN -x ELSE x

----------------------------------------------------------------------------
(* get_stock_data: coercion and row dropping, lines 92-95 *)

Num(n) == [kind |-> "num", val |-> n]
Str == [kind |-> "str", val |-> 0]
NaN == [kind |-> "nan", val |-> 0]

\* pd.to_numeric(errors='coerce'): a non-numeric cell becomes NaN
ToNumeric(cell) == IF cell.kind = "num" THEN cell ELSE NaN

Coerce(rows) ==
    [k \in 1..Len(rows) |->
        [close |-> ToNumeric(rows[k].close), volume |-> ToNumeric(rows[k].volume)]]

IsUsable(row) == row.close.kind = "num" /\ row.volume.kind = "num"

\* dropna(subset=['close','volume']) and reset_index
DropNa(rows) == SelectSeq(rows, IsUsable)

Closes(df) == [k \in 1..Len(df) |-> df[k].close.val]
Volumes(df) == [k \in 1..Len(df) |-> df[k].volume.val]

----------------------------------------------------------------------------
(* calculate_rsi, lines 64-70, and the two indicators of lines 106-107 *)

RsiWindow == 14
MaWindow == 20

NotAvailable == [kind |-> "na", val |-> 0]      \* the string "N/A"
NotANumber == [kind |-> "nan", val |-> 0]       \* the float nan

\* delta.where(delta > 0, 0) at position k: prices.diff() is NaN at the
\* first position, NaN > 0 is false, so the first position holds 0
GainAt(prices, k) ==
    IF k = 1 THEN 0
    ELSE IF prices[k] - prices[k - 1] > 0 THEN prices[k] - prices[k - 1] ELSE 0

\* -delta.where(delta < 0, 0) at position k
LossAt(prices, k) ==
    IF k = 1 THEN 0
    ELSE IF prices[k] - prices[k - 1] < 0 THEN prices[k - 1] - prices[k] ELSE 0

\* A variant of CalculateRsi: a zero loss gives nan whatever the gain
CalculateRsiNanOnZeroLoss(prices) ==
    LET n == Len(prices)
        from == n - RsiWindow + 1
        gain == SumSeq([k \in 1..RsiWindow |-> GainAt(prices, from + k - 1)])
        loss == SumSeq([k \in 1..RsiWindow |-> LossAt(prices, from + k - 1)])
    IN  IF loss = 0 THEN NotANumber
        ELSE [kind |-> "num", val |-> (10000 * gain) \div (gain + loss)]

\* The value is in hundredths (round(rsi, 2), line 161), truncated.
\* rs = gain / loss is inf when loss = 0 < gain (rsi is then 100) and nan
\* when both are 0 (rsi is then nan); rsi = 100 - 100/(1+rs) = 100 g/(g+l).
CalculateRsi(prices) ==
    LET n == Len(prices)
        from == n - RsiWindow + 1
        gain == SumSeq([k \in 1..RsiWindow |-> GainAt(prices, from + k - 1)])
        loss == SumSeq([k \in 1..RsiWindow |-> LossAt(prices, from + k - 1)])
    IN  IF loss = 0
        THEN IF gain = 0 THEN NotANumber ELSE [kind |-> "num", val |-> 10000]
        ELSE [kind |-> "num", val |-> (10000 * gain) \div (gain + loss)]

\* line 106
RsiOf(close_prices) ==
    IF Len(close_prices) >= RsiWindow THEN CalculateRsi(close_prices) ELSE NotAvailable

\* line 107; the value is the mean in hundredths: 100 * sum / 20 = 5 * sum
Ma20Of(close_prices) ==
    IF Len(close_prices) >= MaWindow
    THEN [kind |-> "num", val |-> 5 * SumSeq(TailN(close_prices, MaWindow))]
    ELSE NotAvailable

----------------------------------------------------------------------------
(* The volume-price label, lines 109-121 *)

VolumePriceSignal(latest_close, prev_close, latest_volume, prev_volume) ==
    LET price_up == latest_close > prev_close
        vol_up == latest_volume > prev_volume
    IN  IF price_up /\ vol_up THEN "price_up_volume_up"                          \* 113
        ELSE IF ~price_up /\ latest_volume < prev_volume
             THEN "price_down_volume_down"                                     \* 115
        ELSE IF price_up /\ ~vol_up THEN "price_up_volume_down"                  \* 117
        ELSE IF ~price_up /\ vol_up THEN "price_down_volume_up"                  \* 119
        ELSE "neutral"                                                         \* 121

----------------------------------------------------------------------------
(* infer_main_force_behavior, lines 123-152 *)

\* latest_close > ma20 (line 149): ma20 is the string "N/A" when the series
\* has fewer than 20 bars, and float > str raises TypeError
AboveMa20(latest_close, ma20) ==
    IF ma20.kind = "na" THEN "TypeError"
    ELSE IF latest_close * 100 > ma20.val THEN "true" ELSE "false"

\* A variant of IsHealthyShakeout: without latest_close > closes[-3]
IsHealthyShakeoutAnyRecovery(closes, vols) ==
    /\ closes[4] < closes[3] /\ closes[5] > closes[4]
    /\ 50 * vols[4] < 7 * SumSeq(vols)

\* The condition of line 143 over the five-bar window, with lines 136-137
IsHealthyShakeout(closes, vols) ==
    LET latest_close == closes[5]
        recent_pullback == closes[4] < closes[3] /\ latest_close > closes[4]
        \* vols[-2] < avg_vol_5d * 0.7, avg_vol_5d = sum(vols) / 5
        pullback_low_vol == 50 * vols[4] < 7 * SumSeq(vols)
    IN  recent_pullback /\ pullback_low_vol /\ latest_close > closes[3]

InferMainForceBehavior(close_prices, volumes, ma20, price_up) ==
    LET closes == TailN(close_prices, 5)
        vols == TailN(volumes, 5)
    IN  IF Len(closes) < 5 THEN "insufficient_data"                            \* 127
        ELSE
        LET latest_close == closes[5]
            latest_vol == vols[5]
            sum_vol == SumSeq(vols)           \* avg_vol_5d = sum_vol / 5
            \* latest_vol > avg_vol_5d * 1.5
            high_vol == 10 * latest_vol > 3 * sum_vol
            \* pct_5d = (latest_close - closes[0]) / closes[0], 0 when closes[0] = 0
            pct_gt_5 == closes[1] /= 0 /\ 20 * (latest_close - closes[1]) > closes[1]
            pct_abs_lt_2 == closes[1] = 0 \/ 50 * Abs(latest_close - closes[1]) < closes[1]
            is_new_high == latest_close = MaxSeq(closes)
        IN  IF pct_gt_5 /\ high_vol /\ is_new_high THEN "strong_markup"          \* 140
            ELSE IF pct_abs_lt_2 /\ latest_vol = MinSeq(vols)
                 THEN "low_accumulation"                                       \* 142
            ELSE IF IsHealthyShakeout(closes, vols)
                 THEN "healthy_shakeout"                                       \* 144
            ELSE IF /\ latest_close < closes[4]
                    /\ high_vol
                    /\ 100 * (closes[4] - latest_close) > 3 * closes[4]
                 THEN "heavy_volume_decline"                                   \* 146
            ELSE IF latest_close > closes[4] /\ high_vol
                 THEN "heavy_volume_advance"                                   \* 148
            ELSE IF AboveMa20(latest_close, ma20) = "TypeError" THEN "TypeError"
            ELSE IF /\ AboveMa20(latest_close, ma20) = "true"
                    \* latest_vol < avg_vol_5d * 0.8
                    /\ 25 * latest_vol < 4 * sum_vol
                    /\ price_up
                 THEN "gentle_markup"                                          \* 150
            ELSE "consolidation"                                               \* 152

----------------------------------------------------------------------------
(* get_stock_data, lines 72-169 *)

None == [none |-> TRUE]

\* The frame after lines 92-95
Frame(rows) == DropNa(Coerce(rows))

\* Is line 154 reached: neither line 80 nor line 97 returned
ReachesInfer(rows) == Len(rows) >= 5 /\ Len(Frame(rows)) >= 2

\* The call of line 154: a label, or "TypeError" when the call raises
MainForceSignal(rows) ==
    LET close_prices == Closes(Frame(rows))
        n == Len(close_prices)
    IN  InferMainForceBehavior(close_prices, Volumes(Frame(rows)),
                               Ma20Of(close_prices),
                               close_prices[n] > close_prices[n - 1])

GetStockData(symbol, rows) ==
    IF Len(rows) < 5 THEN None                                                 \* 80
    ELSE IF Len(Frame(rows)) < 2 THEN None                                     \* 97
    ELSE
    LET close_prices == Closes(Frame(rows))
        volumes == Volumes(Frame(rows))
        n == Len(close_prices)
    IN  IF MainForceSignal(rows) = "TypeError" THEN None                       \* 168
        ELSE [symbol |-> symbol,
              price |-> close_prices[n],
              volume |-> volumes[n],
              rsi |-> RsiOf(close_prices),
              ma20 |-> Ma20Of(close_prices),
              last_5_days |-> TailN(close_prices, 5),
              volume_price_signal |->
                  VolumePriceSignal(close_prices[n], close_prices[n - 1],
                                    volumes[n], volumes[n - 1]),
              main_force_signal |-> MainForceSignal(rows)]

----------------------------------------------------------------------------
(* The answers of the market-data provider that are tried *)

\* Closes: 100 -> 101 is a move below 2%, 101 -> 106 one between 3% and 5%,
\* 100 -> 106 one above 5%.  Volumes: 5, 10, 20, ...
CloseLevels == {100, 101, 106}
VolOf(k) == 5 * 2 ^ k
VolLevels == {VolOf(k) : k \in 0..MaxVolIdx}

Bar(c, v) == [close |-> Num(c), volume |-> Num(v)]
\* The k-th row with a cell that is no number: the close, or the volume
BadBar(k) == IF k % 2 = 1 THEN [close |-> Str, volume |-> Num(VolOf(0))]
             ELSE [close |-> Num(100), volume |-> Str]

Repeat(x, n) == [k \in 1..n |-> x]

\* A series of len bars whose last five are free in four closes and three
\* volumes; the bars before them repeat the first
Shaped(len, c0, c2, c3, c4, vb, v3, v4) ==
    LET window == <<Bar(c0, vb), Bar(c0, vb), Bar(c2, vb), Bar(c3, v3), Bar(c4, v4)>>
    IN  IF len <= 5 THEN TailN(window, len)
        ELSE Repeat(Bar(c0, vb), len - 5) \o window

\* MaWindow + 5 bars, closes rising by stepA and over the last five bars by
\* stepB, volumes vb except the last, which is 2 * vb
Rising(stepA, stepB, vb) ==
    [k \in 1..(MaWindow + 5) |->
        Bar(IF k <= MaWindow THEN 100 + stepA * k
            ELSE 100 + stepA * MaWindow + stepB * (k - MaWindow),
            IF k = MaWindow + 5 THEN 2 * vb ELSE vb)]

Lens == (0..MaxShortLen)
        \cup {RsiWindow - 1, RsiWindow, MaWindow - 1, MaWindow, MaWindow + 5}

ShapedInputs ==
    {Shaped(len, c0, c2, c3, c4, vb, v3, v4) \o [k \in 1..bad |-> BadBar(k)] :
        len \in Lens, c0 \in CloseLevels, c2 \in CloseLevels, c3 \in CloseLevels,
        c4 \in CloseLevels, vb \in VolLevels, v3 \in VolLevels, v4 \in VolLevels,
        bad \in 0..MaxBad}

RisingInputs ==
    {Rising(stepA, stepB, vb) : stepA \in 1..MaxStep, stepB \in 1..MaxStep,
                                vb \in VolLevels}

DataInputs == ShapedInputs \cup RisingInputs

----------------------------------------------------------------------------
(* SpecData: one call of get_stock_data on an answer of the provider *)

NotWritten == [none |-> TRUE]

MainIdle ==
    /\ STOCKS = <<>> /\ i = 1 /\ pc = "idle" /\ data = None /\ results = <<>>
    /\ analysis = <<>> /\ retry = 0 /\ outcomes = <<>> /\ waits = <<>> /\ passed = <<>>
    /\ errors = 0 /\ written = NotWritten

DataInit ==
    /\ raw \in DataInputs
    /\ dpc = "call"
    /\ signal = "not_called"
    /\ metrics = None
    /\ MainIdle

CallGetStockData ==
    /\ dpc = "call"
    /\ dpc' = "done"
    /\ signal' = IF ReachesInfer(raw) THEN MainForceSignal(raw) ELSE "not_called"
    /\ metrics' = GetStockData("600000", raw)
    /\ UNCHANGED <<raw, mvars>>

DataNext == CallGetStockData

SpecData == DataInit /\ [][DataNext]_vars

----------------------------------------------------------------------------
(* Strings: a Python string is a sequence of tokens *)

RECURSIVE LStrip(_)
LStrip(t) == IF t /= <<>> /\ Head(t) = " " THEN LStrip(Tail(t)) ELSE t

RECURSIVE RStrip(_)
RStrip(t) == IF t /= <<>> /\ t[Len(t)] = " " THEN RStrip(SubSeq(t, 1, Len(t) - 1)) ELSE t

\* str.strip()
Strip(t) == RStrip(LStrip(t))

\* str.startswith, str.endswith
StartsWith(t, p) == Len(p) <= Len(t) /\ SubSeq(t, 1, Len(p)) = p
EndsWith(t, p) == Len(p) <= Len(t) /\ SubSeq(t, Len(t) - Len(p) + 1, Len(t)) = p

----------------------------------------------------------------------------
(* get_stock_name_safe, lines 18-58 *)

NoName == <<>>                          \* the return value None
UnknownName == <<"unknown_name">>       \* the placeholder of line 221

\* lines 24-29
Market(symbol) ==
    IF \E p \in {<<"6", "0">>, <<"6", "8", "8">>, <<"6", "8", "9">>} : StartsWith(symbol, p)
    THEN "sh"
    ELSE IF \E p \in {<<"0", "0">>, <<"3", "0">>, <<"8">>} : StartsWith(symbol, p)
    THEN "sz"
    ELSE "none"

\* The suffixes of line 50, in the order the loop tries them
Suffixes == << <<"joint_stock", "limited">>, <<"group", "joint_stock", "limited">>,
               <<"group", "limited">>, <<"limited">> >>

RECURSIVE StripSuffix(_, _)
StripSuffix(name, k) ==
    IF k > Len(Suffixes) THEN name
    ELSE IF EndsWith(name, Suffixes[k])
         THEN RStrip(SubSeq(name, 1, Len(name) - Len(Suffixes[k])))
         ELSE StripSuffix(name, k + 1)

\* answer: what ak.stock_individual_info_em does for the symbol
GetStockNameSafe(symbol, answer) ==
    IF Market(symbol) = "none" THEN NoName                                     \* 29
    ELSE IF answer.kind = "raise" THEN NoName                                  \* 56-58
    ELSE IF answer.kind = "short" THEN Strip(answer.value)                     \* 40-43
    ELSE IF answer.kind = "full" THEN StripSuffix(Strip(answer.value), 1)      \* 46-54
    ELSE NoName                                                                \* 55

NameAnswers ==
    {[kind |-> "raise", value |-> <<>>],
     [kind |-> "empty", value |-> <<>>],
     [kind |-> "short", value |-> <<"acme", " ">>],
     [kind |-> "full", value |-> <<"acme", "group", "joint_stock", "limited">>]}

----------------------------------------------------------------------------
(* generate_analysis, lines 171-203 *)

FailMarker == <<"analysis_failed">>                                            \* 203
ApiError(status) == <<"API_error(", ToString(status), ")">>                    \* 199

\* range(3), line 190
Attempts == 3

\* A variant of Backoff: 2 * retry
BackoffLinear(n) == 2 * n

\* 2 ** retry, line 196
Backoff(n) == 2 ^ n

Sleep(line, secs) == <<[line |-> line, secs |-> secs]>>

\* A variant of OnCallRaised: no except clause, the exception leaves the function
OnCallRaisedEscapes == [ctl |-> "raise", value |-> <<>>, sleep |-> <<>>]

\* Generation.call raised: lines 200-202
OnCallRaised == [ctl |-> "continue", value |-> <<>>, sleep |-> Sleep(201, 2)]

\* status 200, lines 193-194: response.output.text raises AttributeError
\* inside the try when the output holds no text, which lines 200-202 catch
OnSuccess(o) ==
    IF o.output = "missing" THEN OnCallRaised
    ELSE [ctl |-> "return", value |-> Strip(o.text), sleep |-> <<>>]

\* status 429, lines 195-197
OnRateLimited(n) == [ctl |-> "continue", value |-> <<>>, sleep |-> Sleep(196, Backoff(n))]

\* A variant of OnOtherStatus: any other status is retried after the fixed delay
OnOtherStatusRetried(o) == [ctl |-> "continue", value |-> <<>>, sleep |-> Sleep(201, 2)]

\* any other status, lines 198-199
OnOtherStatus(o) == [ctl |-> "return", value |-> ApiError(o.status), sleep |-> <<>>]

\* One pass through the loop body, lines 191-202.  o is what Generation.call
\* did: it raised, or it answered with a status code and, possibly, an
\* output holding a text.  ctl is "return", "continue", or "raise" when an
\* exception leaves the function.
Attempt(o, n) ==
    IF o.kind = "raise" THEN OnCallRaised
    ELSE IF o.status = 200 THEN OnSuccess(o)
    ELSE IF o.status = 429 THEN OnRateLimited(n)
    ELSE OnOtherStatus(o)

RECURSIVE TextsOfLen(_)
TextsOfLen(n) ==
    IF n = 0 THEN {<<>>}
    ELSE {Append(t, ch) : t \in TextsOfLen(n - 1), ch \in {" ", "a"}}

Texts == UNION {TextsOfLen(n) : n \in 0..MaxTextLen}

Response(status, output, text) ==
    [kind |-> "response", status |-> status, output |-> output, text |-> text]

GenerationOutcomes ==
    {Response(200, "present", t) : t \in Texts}
    \cup {Response(200, "missing", <<>>), Response(429, "present", <<>>),
          Response(500, "present", <<>>),
          [kind |-> "raise", status |-> 0, output |-> "missing", text |-> <<>>]}

\* What is kept of an outcome in the call log
OutcomeKind(o) ==
    IF o.kind = "raise" THEN "raise"
    ELSE IF o.status = 200 /\ o.output = "missing" THEN "200_no_text"
    ELSE ToString(o.status)

----------------------------------------------------------------------------
(* main, lines 205-245 *)

Symbols == {<<"6", "0", "0", "5", "1", "9">>, <<"9", "0", "0", "9", "0", "1">>}

RECURSIVE ListsOfLen(_)
ListsOfLen(n) ==
    IF n = 0 THEN {<<>>}
    ELSE {Append(l, s) : l \in ListsOfLen(n - 1), s \in Symbols}

StockLists == UNION {ListsOfLen(n) : n \in 0..MaxStocks}

\* The provider's answers tried in main: no rows; five flat bars; a rising
\* series of 25 bars
MainInputs ==
    {<<>>,
     Shaped(5, 100, 100, 100, 100, VolOf(1), VolOf(1), VolOf(2)),
     Rising(1, 2, VolOf(1))}

Init ==
    /\ STOCKS \in StockLists
    /\ i = 1
    /\ pc = "fetch"
    /\ data = None
    /\ results = <<>>
    /\ analysis = <<>>
    /\ retry = 0
    /\ outcomes = <<>>
    /\ waits = <<>>
    /\ passed = <<>>
    /\ errors = 0
    /\ written = NotWritten
    /\ raw = <<>> /\ dpc = "idle" /\ signal = "not_called" /\ metrics = None

\* lines 214-217: get_stock_data, and the skip when it returns None
FetchData ==
    /\ pc = "fetch"
    /\ i <= Len(STOCKS)
    /\ \E rows \in MainInputs :
        LET d == GetStockData(STOCKS[i], rows)
        IN  /\ passed' = Append(passed, d /= None)
            /\ IF d = None
               THEN /\ i' = i + 1
                    /\ UNCHANGED <<pc, data>>
               ELSE /\ data' = d
                    /\ pc' = "name"
                    /\ UNCHANGED i
    /\ UNCHANGED <<STOCKS, results, analysis, retry, outcomes, waits, errors, written, dvars>>

\* lines 220-221, and the entry into generate_analysis at line 226
LookupName ==
    /\ pc = "name"
    /\ \E answer \in NameAnswers :
        LET name == GetStockNameSafe(data.symbol, answer)
        IN  data' = [name |-> IF name /= NoName THEN name ELSE UnknownName] @@ data
    /\ pc' = "generate"
    /\ retry' = 0
    /\ outcomes' = <<>>
    /\ waits' = <<>>
    /\ UNCHANGED <<STOCKS, i, results, analysis, passed, errors, written, dvars>>

\* One iteration of the loop of lines 190-202, with the return of line 203
\* when it was the last; an exception leaving generate_analysis is caught at
\* line 232, which goes on to the next symbol
GenerateAttempt ==
    /\ pc = "generate"
    /\ \E o \in GenerationOutcomes :
        LET r == Attempt(o, retry)
        IN  /\ outcomes' = Append(outcomes, OutcomeKind(o))
            /\ waits' = waits \o r.sleep
            /\ IF r.ctl = "return"
               THEN /\ analysis' = r.value
                    /\ pc' = "append"
                    /\ UNCHANGED <<retry, i, errors>>
               ELSE IF r.ctl = "raise"
               THEN /\ errors' = errors + 1
                    /\ i' = i + 1
                    /\ pc' = "fetch"
                    /\ UNCHANGED <<retry, analysis>>
               ELSE IF retry + 1 < Attempts
               THEN /\ retry' = retry + 1
                    /\ UNCHANGED <<pc, analysis, i, errors>>
               ELSE /\ analysis' = FailMarker
                    /\ pc' = "append"
                    /\ UNCHANGED <<retry, i, errors>>
    /\ UNCHANGED <<STOCKS, data, results, passed, written, dvars>>

\* A variant of AppendResult: the record is put at the front of the list
AppendResultAtFront ==
    /\ pc = "append"
    /\ data' = [analysis |-> analysis] @@ data
    /\ results' = <<data'>> \o results
    /\ pc' = "throttle"
    /\ UNCHANGED <<STOCKS, i, analysis, retry, outcomes, waits, passed, errors, written, dvars>>

\* lines 227-228
AppendResult ==
    /\ pc = "append"
    /\ data' = [analysis |-> analysis] @@ data
    /\ results' = Append(results, data')
    /\ pc' = "throttle"
    /\ UNCHANGED <<STOCKS, i, analysis, retry, outcomes, waits, passed, errors, written, dvars>>

\* line 230, and the step of the loop to the next symbol
Throttle ==
    /\ pc = "throttle"
    /\ i' = i + 1
    /\ pc' = "fetch"
    /\ data' = None
    /\ analysis' = <<>>
    /\ retry' = 0
    /\ outcomes' = <<>>
    /\ waits' = <<>>
    /\ UNCHANGED <<STOCKS, results, passed, errors, written, dvars>>

\* lines 236-242
WriteOutput ==
    /\ pc = "fetch"
    /\ i > Len(STOCKS)
    /\ written' = [generated_at |-> "now", stocks |-> results]
    /\ pc' = "done"
    /\ UNCHANGED <<STOCKS, i, data, results, analysis, retry, outcomes, waits, passed,
                   errors, dvars>>

Next == FetchData \/ LookupName \/ GenerateAttempt \/ AppendResult \/ Throttle \/ WriteOutput

Spec == Init /\ [][Next]_vars

----------------------------------------------------------------------------
(* Properties of generate_analysis and main, checked under Spec *)

\* generate_analysis has returned to main
Returned == pc \in {"append", "throttle"}

AllIn(seq, kinds) == \A k \in 1..Len(seq) : seq[k] \in kinds

RateLimitWaits == <<[line |-> 196, secs |-> 1], [line |-> 196, secs |-> 2],
                    [line |-> 196, secs |-> 4]>>

\* C1: when every call is answered 429, three calls are made, the waits
\* after them are 1, 2 and 4, and the failure marker is returned; when the
\* first call is answered 200 (with a text), one call is made and no wait.
C1_RateLimitedThreeCalls ==
    /\ (pc = "generate" /\ AllIn(outcomes, {"429"})) =>
            /\ Len(outcomes) < 3
            /\ waits = SubSeq(RateLimitWaits, 1, Len(outcomes))
    /\ (Returned /\ AllIn(outcomes, {"429"})) =>
            /\ Len(outcomes) = 3
            /\ waits = RateLimitWaits
            /\ analysis = FailMarker
    /\ (Len(outcomes) >= 1 /\ outcomes[1] = "200") =>
            /\ Returned
            /\ Len(outcomes) = 1
            /\ waits = <<>>

C1_Witness ==
    pc = "append" /\ outcomes = <<"429", "429", "429">> /\ waits = RateLimitWaits

\* C2: a status that is neither 200 nor 429 ends the generation at once, on
\* whichever attempt: it is the last call, no wait follows it, and the
\* 2^attempt wait of line 196 is taken after a 429 and after nothing else.
C2_OtherStatusReturnsAtOnce ==
    /\ \A k \in 1..Len(outcomes) :
            outcomes[k] = "500" =>
                /\ k = Len(outcomes)
                /\ Returned
                /\ Len(waits) = k - 1
                /\ analysis = ApiError(500)
    /\ \A k \in 1..Len(waits) :
            /\ (waits[k].line = 196) <=> (outcomes[k] = "429")
            /\ outcomes[k] = "429" => waits[k].secs = 2 ^ (k - 1)
    /\ Len(waits) <= Len(outcomes)

C2_Witness ==
    pc = "append" /\ Len(outcomes) = 3 /\ outcomes[3] = "500" /\ outcomes[1] = "429"

FailedKinds == {"429", "raise", "200_no_text"}

\* C3: whatever the calls do, at most 3 are made, no exception leaves
\* generate_analysis (the handler of line 232 never runs), a text is
\* returned, it is the failure marker when all 3 attempts ended in a 429 or
\* an exception, and main appends the symbol's record with that text.
C3_BoundedNoExceptionText ==
    /\ Len(outcomes) <= 3
    /\ errors = 0
    /\ Returned => analysis \in Seq(STRING)
    /\ (Returned /\ Len(outcomes) = 3 /\ AllIn(outcomes, FailedKinds)) =>
            analysis = FailMarker
    /\ pc = "append" => (data /= None /\ data.symbol = STOCKS[i])
    /\ pc = "throttle" =>
            /\ Len(results) >= 1
            /\ results[Len(results)] = data
            /\ data.analysis = analysis
            /\ data.symbol = STOCKS[i]
            /\ DOMAIN data = {"symbol", "price", "volume", "rsi", "ma20", "last_5_days",
                              "volume_price_signal", "main_force_signal", "name",
                              "analysis"}

C3_Witness ==
    /\ pc = "throttle"
    /\ outcomes = <<"raise", "200_no_text", "429">>
    /\ results[Len(results)].analysis = FailMarker

\* C4 (as claimed): every entry of the stocks array has a non-empty analysis.
C4_AnalysisNonEmpty ==
    /\ \A k \in 1..Len(results) : results[k].analysis /= <<>>
    /\ written /= NotWritten =>
            \A k \in 1..Len(written.stocks) : written.stocks[k].analysis /= <<>>

RECURSIVE SelectPassed(_, _)
SelectPassed(list, flags) ==
    IF flags = <<>> THEN <<>>
    ELSE SelectPassed(SubSeq(list, 1, Len(flags) - 1), SubSeq(flags, 1, Len(flags) - 1))
         \o (IF flags[Len(flags)] THEN <<list[Len(flags)]>> ELSE <<>>)

SymbolsOf(entries) == [k \in 1..Len(entries) |-> entries[k].symbol]

\* C5: the stocks array holds one entry per symbol whose get_stock_data
\* returned a record and none for the others, in the order of the symbol
\* list; an entry is in the array only with its name and its analysis set.
C5_OneEntryPerFetchedSymbol ==
    /\ Len(passed) <= Len(STOCKS)
    /\ SymbolsOf(results) =
            IF pc \in {"name", "generate", "append"}
            THEN SelectPassed(STOCKS, SubSeq(passed, 1, Len(passed) - 1))
            ELSE SelectPassed(STOCKS, passed)
    /\ \A k \in 1..Len(results) : {"name", "analysis"} \subseteq DOMAIN results[k]
    /\ pc = "done" =>
            /\ Len(passed) = Len(STOCKS)
            /\ written.stocks = results
            /\ SymbolsOf(written.stocks) = SelectPassed(STOCKS, passed)

C5_Witness ==
    /\ pc = "done"
    /\ Len(STOCKS) >= 2
    /\ STOCKS[1] /= STOCKS[2]
    /\ passed[1] /\ passed[2]
    /\ SymbolsOf(written.stocks) = <<STOCKS[1], STOCKS[2]>>

----------------------------------------------------------------------------
(* Properties of get_stock_data, checked under SpecData *)

DataDone == dpc = "done"
UsableCloses == Closes(Frame(raw))
UsableVolumes == Volumes(Frame(raw))
UsableLen == Len(Frame(raw))
Window5Closes == TailN(UsableCloses, 5)
Window5Volumes == TailN(UsableVolumes, 5)

SevenLabels == {"strong_markup", "low_accumulation", "healthy_shakeout",
                "heavy_volume_decline", "heavy_volume_advance", "gentle_markup",
                "consolidation"}

\* The rules as the specification words them, over a window of five bars
Rule1Holds(c, v) ==
    /\ c[1] /= 0 /\ 20 * (c[5] - c[1]) > c[1]
    /\ 10 * v[5] > 3 * SumSeq(v)
    /\ \A k \in 1..5 : c[k] <= c[5]
Rule2Holds(c, v) ==
    /\ c[1] = 0 \/ 50 * Abs(c[5] - c[1]) < c[1]
    /\ \A k \in 1..5 : v[5] <= v[k]
Rule3Holds(c, v) == c[4] < c[3] /\ c[5] > c[4] /\ 50 * v[4] < 7 * SumSeq(v)
Rule5Holds(c, v) == c[5] > c[4] /\ 10 * v[5] > 3 * SumSeq(v)

\* C6 (as claimed): for every window of 5 usable bars the call of
\* infer_main_force_behavior returns one of the seven labels, and the label
\* is rule 1's whenever rule 1 and rule 5 both hold.
C6_OneOfSevenFirstMatch ==
    (DataDone /\ Len(raw) >= 5 /\ UsableLen >= 5) =>
        /\ signal \in SevenLabels
        /\ (Rule1Holds(Window5Closes, Window5Volumes)
            /\ Rule5Holds(Window5Closes, Window5Volumes)) => signal = "strong_markup"

\* The 4+1 case table of the specification
TableLabel(latest_close, prev_close, latest_volume, prev_volume) ==
    IF latest_close = prev_close \/ latest_volume = prev_volume THEN "neutral"
    ELSE IF latest_close > prev_close
         THEN IF latest_volume > prev_volume THEN "price_up_volume_up"
              ELSE "price_up_volume_down"
         ELSE IF latest_volume > prev_volume THEN "price_down_volume_up"
              ELSE "price_down_volume_down"

\* C7 (as claimed): the volume-price label of a returned record follows the
\* 4+1 case table, a tie in close or in volume giving neutral.
C7_VolumePriceTable ==
    (DataDone /\ metrics /= None) =>
        metrics.volume_price_signal =
            TableLabel(UsableCloses[UsableLen], UsableCloses[UsableLen - 1],
                       UsableVolumes[UsableLen], UsableVolumes[UsableLen - 1])

\* C8 (as claimed): with at least 2 usable bars a record is returned, its rsi
\* is unavailable exactly below 14 bars and its ma20 exactly below 20 bars,
\* and both are finite numbers otherwise.
C8_IndicatorsAvailability ==
    (DataDone /\ UsableLen >= 2) =>
        /\ metrics /= None
        /\ (metrics.rsi.kind = "na") <=> (UsableLen < 14)
        /\ (metrics.ma20.kind = "na") <=> (UsableLen < 20)
        /\ UsableLen >= 14 => metrics.rsi.kind = "num"
        /\ UsableLen >= 20 => metrics.ma20.kind = "num"

\* A 25-bar series, closes strictly increasing, volumes at a positive
\* baseline except the last, which is twice the baseline
IsRisingSpike(rows) ==
    /\ Len(rows) = 25
    /\ \A k \in 1..25 : IsUsable(rows[k])
    /\ \A k \in 1..24 : rows[k].close.val < rows[k + 1].close.val
    /\ rows[1].volume.val > 0
    /\ \A k \in 1..24 : rows[k].volume.val = rows[1].volume.val
    /\ rows[25].volume.val = 2 * rows[1].volume.val

\* C9 (as claimed): every such series yields a record labelled strong_markup
\* with numeric rsi and ma20.
C9_RisingSpikeIsStrongMarkup ==
    (DataDone /\ IsRisingSpike(raw)) =>
        /\ metrics /= None
        /\ metrics.main_force_signal = "strong_markup"
        /\ metrics.rsi.kind = "num"
        /\ metrics.ma20.kind = "num"

\* C9 (amended): every such series yields a record with numeric rsi and ma20;
\* its label is strong_markup when the last close is more than 5% above the
\* close four bars earlier, and heavy_volume_advance (rule 5) otherwise.
C9_RisingSpikeLabel ==
    (DataDone /\ IsRisingSpike(raw)) =>
        /\ metrics /= None
        /\ metrics.rsi.kind = "num"
        /\ metrics.ma20.kind = "num"
        /\ metrics.main_force_signal =
              IF 20 * (raw[25].close.val - raw[21].close.val) > raw[21].close.val
              THEN "strong_markup" ELSE "heavy_volume_advance"

C9_Witness ==
    /\ DataDone /\ IsRisingSpike(raw) /\ metrics /= None
    /\ metrics.main_force_signal = "strong_markup"
    /\ metrics.rsi.val = 10000

Rule3Case ==
    /\ DataDone /\ Len(raw) >= 5 /\ UsableLen >= 5
    /\ ~Rule1Holds(Window5Closes, Window5Volumes)
    /\ ~Rule2Holds(Window5Closes, Window5Volumes)

\* C10 (as claimed): when rules 1 and 2 do not hold, healthy_shakeout is
\* returned exactly when the three conditions of rule 3 hold.
C10_ShakeoutThreeConditions ==
    Rule3Case =>
        ((signal = "healthy_shakeout") <=> Rule3Holds(Window5Closes, Window5Volumes))

\* C10 (amended): when rules 1 and 2 do not hold, healthy_shakeout is returned
\* exactly when the three conditions of rule 3 hold and the latest close is
\* also above the close before the dip (closes[-3]).
C10_ShakeoutFourConditions ==
    Rule3Case =>
        ((signal = "healthy_shakeout") <=>
            (Rule3Holds(Window5Closes, Window5Volumes)
             /\ Window5Closes[5] > Window5Closes[3]))

C10_Witness == Rule3Case /\ signal = "healthy_shakeout"

====
